---- MODULE Spec2Model ----
(***************************************************************************)
(* Web-to-App Builder backend: the request handlers of                     *)
(*   src/fleepzon app/server.js  (submit-or-update, search, order, verify) *)
(*   src/unnamed/part_000        (submit, order, verify)                   *)
(* over the App collection, the uploads/builds folder, the mail transport  *)
(* and the payment gateway.  A handler is split at its awaits: one action  *)
(* per completed I/O call together with the synchronous code that follows  *)
(* it up to the next await.                                                *)
(***************************************************************************)
EXTENDS Integers, Sequences, FiniteSets, TLC

VARIABLES
  env,       \* the run: which of the two server files is running (program), how
             \* many handlers may be suspended at an await at once (cap), how many
             \* requests arrive (limit), the last clock value (horizon), whether
             \* calls to the store, the mail transport and the gateway may fail (flaky)
  now,       \* the clock as last read (Date.now(), new Date())
  nreq,      \* requests received so far
  proc,      \* per handler frame: the request, its locals, where it is suspended
  records,   \* the App collection, in insertion order
  files,     \* uploads/builds
  outbox,    \* mails the transport has delivered
  gateway    \* receipts passed to razorpay.orders.create, in call order

vars == <<env, now, nreq, proc, records, files, outbox, gateway>>

(* ---------------- bounds ---------------- *)
MaxReqs == 3        \* requests received in one run, handled one at a time (Spec, SpecP0)
MaxSearchReqs == 4  \* the same, in runs without failing calls (SpecSearch)
MaxConcReqs == 3    \* requests received in one run, handled concurrently (SpecConc)
MaxClock == 0       \* last value of the clock (it starts at 0)
MaxInflight == 2    \* handler frames, i.e. handlers suspended at an await at once (SpecConc)

(* ---------------- values ---------------- *)
Programs == {"server.js", "part_000"}

\* Strings that are searched or concatenated are sequences of characters.
NoText == <<>>
Packages == {<<"a">>, <<"a", "b">>}
Null == <<>>

\* The k-th request carries the value k in each field it fills in; 0 is an
\* empty or omitted field (both are falsy, and both erase on assignment).
Name(v) == <<"N", ToString(v)>>

DirectFields == {"appName", "versionName", "versionCode", "website",
                 "admobAppId", "bannerAd", "rewardedAd"}
OrFields == {"icon", "splash", "addons"}
MetaFields == DirectFields \cup OrFields \cup {"contactEmail"}

\* Which fields a submit request leaves empty.
Blanks == {{}, {"packageName"}, {"contactEmail"}, DirectFields \cup OrFields}

MkData(pkg, v, blank) ==
  LET n(f) == IF f \in blank THEN 0 ELSE v IN
  [packageName  |-> IF "packageName" \in blank THEN NoText ELSE pkg,
   contactEmail |-> n("contactEmail"),
   appName      |-> IF "appName" \in blank THEN NoText ELSE Name(v),
   versionName  |-> n("versionName"),
   versionCode  |-> n("versionCode"),
   website      |-> n("website"),
   addons       |-> IF "addons" \in blank THEN <<>> ELSE <<v>>,
   admobAppId   |-> n("admobAppId"),
   bannerAd     |-> n("bannerAd"),
   rewardedAd   |-> n("rewardedAd"),
   icon         |-> n("icon"),
   splash       |-> n("splash")]

Secret == "key"
Orders == {"o1", "o2"}
Payments == {"p1"}

\* crypto.createHmac("sha256", secret).update(msg).digest("hex"), taken to be
\* collision free on the messages of the model.
Hmac(secret, msg) == <<"sha256", secret, msg>>
SignedMessage(order, payment) == order \o "|" \o payment
Signatures == {Hmac(Secret, SignedMessage(o, p)) : o \in Orders, p \in Payments}

(* ---------------- file store ---------------- *)
Folder(prog) == IF prog = "server.js" THEN "uploads/builds" ELSE "cwd/uploads/builds"
BuildPath(prog, pkg, type) == <<Folder(prog), pkg, type>>
WriteFileSync(fs, path, content) ==
  {f \in fs : f.path # path} \cup {[path |-> path, content |-> content]}
ToUpperCase(type) == CASE type = "apk" -> "APK" [] type = "aab" -> "AAB" [] OTHER -> type
\* buildFakeFile(packageName, type): writes the marker file "<TYPE> build for
\* <packageName> at <date>"; its path is BuildPath.
BuildFakeFile(fs, prog, pkg, type, t) ==
  WriteFileSync(fs, BuildPath(prog, pkg, type), <<ToUpperCase(type), pkg, t>>)

(* ---------------- App collection ---------------- *)
\* findOne answers the first match in natural (insertion) order, null (0) if none.
FirstIndex(hits) ==
  IF hits = {} THEN 0 ELSE CHOOSE i \in hits : \A j \in hits : i <= j

\* AppModel.findOne({ packageName }): first document in natural order, 0 for null.
FindOne(recs, pkg) ==
  FirstIndex({i \in 1..Len(recs) : recs[i].packageName = pkg})

\* new AppModel({...}) of the create branch, with the schema defaults.
NewApp(d, buildPath, t) ==
  [appName |-> d.appName, packageName |-> d.packageName, website |-> d.website,
   icon |-> d.icon, splash |-> d.splash, buildFile |-> buildPath,
   buildAAB |-> Null, contactEmail |-> d.contactEmail,
   addons |-> d.addons, admobAppId |-> d.admobAppId, bannerAd |-> d.bannerAd,
   rewardedAd |-> d.rewardedAd, versionName |-> d.versionName,
   versionCode |-> d.versionCode, paid |-> FALSE, createdAt |-> t,
   updatedAt |-> -1]

\* Faulty variant: the update branch rebuilds the document from the request,
\* keeping only the owner's address.
UpdateDocRebuilt(e, d, buildPath, t) ==
  [NewApp(d, buildPath, e.createdAt) EXCEPT !.contactEmail = e.contactEmail,
                                            !.updatedAt = t]

\* Faulty variant: the update branch also takes the address of the request.
UpdateDocWithEmail(e, d, buildPath, t) ==
  [e EXCEPT !.appName = d.appName,
            !.versionName = d.versionName,
            !.versionCode = d.versionCode,
            !.website = d.website,
            !.contactEmail = d.contactEmail,
            !.buildFile = buildPath,
            !.updatedAt = t]

\* The assignments of the update branch, on the document findOne returned.
UpdateDoc(e, d, buildPath, t) ==
  [e EXCEPT !.appName = d.appName,
            !.versionName = d.versionName,
            !.versionCode = d.versionCode,
            !.website = d.website,
            !.icon = IF d.icon # 0 THEN d.icon ELSE e.icon,
            !.splash = IF d.splash # 0 THEN d.splash ELSE e.splash,
            !.addons = IF d.addons # <<>> THEN d.addons ELSE e.addons,
            !.admobAppId = d.admobAppId,
            !.bannerAd = d.bannerAd,
            !.rewardedAd = d.rewardedAd,
            !.buildFile = buildPath,
            !.updatedAt = t]

\* Paths of a document whose value differs from the one loaded: save() of a
\* loaded document sends exactly these.
ModifiedPaths(old, new) == {f \in DOMAIN old : old[f] # new[f]}

\* Faulty variant: save() writes the whole document back.
SaveWhole(recs, idx, doc, mods) ==
  IF idx = 0 THEN Append(recs, doc) ELSE [recs EXCEPT ![idx] = doc]

\* document.save(): insert for a new document, $set of the modified paths of a
\* loaded one (idx is its position in the collection).
Save(recs, idx, doc, mods) ==
  IF idx = 0 THEN Append(recs, doc)
  ELSE [recs EXCEPT ![idx] = [f \in DOMAIN @ |-> IF f \in mods THEN doc[f] ELSE @[f]]]

\* Faulty variant: the update document lacks the paid flag.
MarkPaidPathOnly(rec, aabPath) == [rec EXCEPT !.buildAAB = aabPath]

\* The update document { paid: true, buildAAB: aabPath } applied to a match.
MarkPaid(rec, aabPath) == [rec EXCEPT !.paid = TRUE, !.buildAAB = aabPath]

\* Faulty variant: the call carries { upsert: true }.
FindOneAndUpdateUpsert(recs, pkg, aabPath) ==
  LET idx == FindOne(recs, pkg)
      fresh == [packageName |-> pkg, contactEmail |-> 0, appName |-> NoText,
                versionName |-> 0, versionCode |-> 0, website |-> 0,
                addons |-> <<>>, admobAppId |-> 0, bannerAd |-> 0,
                rewardedAd |-> 0, icon |-> 0, splash |-> 0]
  IN IF idx = 0 THEN Append(recs, MarkPaid(NewApp(fresh, Null, 0), aabPath))
     ELSE [recs EXCEPT ![idx] = MarkPaid(@, aabPath)]

\* AppModel.findOneAndUpdate({ packageName }, {...}, { new: true }): the first
\* match is updated in one store operation; without a match nothing is written.
FindOneAndUpdate(recs, pkg, aabPath) ==
  LET idx == FindOne(recs, pkg)
  IN IF idx = 0 THEN recs ELSE [recs EXCEPT ![idx] = MarkPaid(@, aabPath)]

(* ---------------- search ---------------- *)
Lower(c) == CASE c = "A" -> "a" [] c = "B" -> "b" [] c = "N" -> "n" [] OTHER -> c
LowerSeq(s) == [i \in 1..Len(s) |-> Lower(s[i])]
Contains(s, q) ==
  \E i \in 0..(Len(s) - Len(q)) : SubSeq(s, i + 1, i + Len(q)) = q
\* { $regex: query, $options: "i" } for a query of literal characters.
RegexI(query, s) == Contains(LowerSeq(s), LowerSeq(query))
RECURSIVE TrimLeft(_)
TrimLeft(s) == IF s # <<>> /\ Head(s) = " " THEN TrimLeft(Tail(s)) ELSE s
RECURSIVE TrimRight(_)
TrimRight(s) ==
  IF s # <<>> /\ s[Len(s)] = " " THEN TrimRight(SubSeq(s, 1, Len(s) - 1)) ELSE s
Trim(s) == TrimRight(TrimLeft(s))
Queries == {<<" ">>, <<"A", " ">>, <<"b">>, <<"n">>}

\* Faulty variant: the query is matched against packageName alone.
SearchOnePackageOnly(recs, query) ==
  FirstIndex({i \in 1..Len(recs) : RegexI(query, recs[i].packageName)})

\* AppModel.findOne({ $or: [appName ~ query, packageName ~ query] })
SearchOne(recs, query) ==
  FirstIndex({i \in 1..Len(recs) :
                RegexI(query, recs[i].appName) \/ RegexI(query, recs[i].packageName)})

(* ---------------- requests ---------------- *)
Slots == 1..MaxInflight
Idle == [op |-> "none", pc |-> "idle", id |-> 0, in |-> <<>>, doc |-> <<>>,
         mods |-> {}, idx |-> 0, path |-> <<>>, resp |-> <<>>]
Busy(s) == proc[s].pc \notin {"idle", "done"}
Inflight == Cardinality({s \in Slots : Busy(s)})
\* A request is taken when a frame is free; it gets the lowest free one.
FreeSlot == CHOOSE s \in Slots : ~Busy(s) /\ \A u \in Slots : u < s => Busy(u)
CanStart == nreq < env.limit /\ Inflight < env.cap
\* The clock when a handler reads it: not before the last reading.
Clock(t) == t \in now..(IF now < env.horizon THEN now + 1 ELSE now)

\* A frame once it has answered: the request and the answer.
Respond(p, resp) ==
  [Idle EXCEPT !.op = p.op, !.pc = "done", !.id = p.id, !.in = p.in, !.resp = resp]

Link(path) == <<"http://localhost", path>>
\* Faulty variant: the catch answers as the success path does.
FailedAsSuccess(status) == [status |-> 200, success |-> TRUE, link |-> Null]
Failed(status) == [status |-> status, success |-> FALSE, link |-> Null]

\* sendEmail(to, ...) rejects: server.js lets transporter.sendMail's rejection
\* through, part_000 catches and logs it.
SendEmailThrows(prog, delivered) == ~delivered /\ prog = "server.js"

\* The state once the module has loaded: an empty collection and builds
\* folder, nothing sent, no request taken.
Start(prog, c, lim, fl) ==
  /\ env = [program |-> prog, cap |-> c, limit |-> lim, horizon |-> MaxClock,
            flaky |-> fl]
  /\ now = 0
  /\ nreq = 0
  /\ proc = [s \in Slots |-> Idle]
  /\ records = <<>>
  /\ files = {}
  /\ outbox = {}
  /\ gateway = <<>>

Init == Start("server.js", 1, MaxReqs, TRUE)
InitP0 == Start("part_000", 1, MaxReqs, TRUE)
InitSearch == Start("server.js", 1, MaxSearchReqs, FALSE)
InitConc == Start("server.js", MaxInflight, MaxConcReqs, TRUE)
InitRace == Start("server.js", MaxInflight, MaxConcReqs, FALSE)

\* POST /api/submit of server.js up to `await existing.save()` / `await newApp.save()`.
Submit(d, t) ==
  /\ env.program = "server.js"
  /\ CanStart /\ Clock(t)
  /\ LET idx == FindOne(records, d.packageName)
         buildPath == BuildPath(env.program, d.packageName, "apk")
         doc == IF idx # 0 THEN UpdateDoc(records[idx], d, buildPath, t)
                ELSE NewApp(d, buildPath, t)
         mods == IF idx # 0 THEN ModifiedPaths(records[idx], doc) ELSE {}
     IN /\ files' = BuildFakeFile(files, env.program, d.packageName, "apk", t)
        /\ proc' = [proc EXCEPT ![FreeSlot] = [Idle EXCEPT !.op = "submit",
                       !.pc = "save", !.id = nreq + 1, !.in = d, !.doc = doc,
                       !.mods = mods, !.idx = idx, !.path = buildPath]]
  /\ nreq' = nreq + 1
  /\ now' = t
  /\ UNCHANGED <<env, records, outbox, gateway>>

\* POST /api/submit of part_000 up to `await newApp.save()`.
P0Submit(d, t) ==
  /\ env.program = "part_000"
  /\ CanStart /\ Clock(t)
  /\ LET buildPath == BuildPath(env.program, d.packageName, "apk")
     IN /\ files' = BuildFakeFile(files, env.program, d.packageName, "apk", t)
        /\ proc' = [proc EXCEPT ![FreeSlot] = [Idle EXCEPT !.op = "submit",
                       !.pc = "save", !.id = nreq + 1, !.in = d,
                       !.doc = NewApp(d, buildPath, t), !.path = buildPath]]
  /\ nreq' = nreq + 1
  /\ now' = t
  /\ UNCHANGED <<env, records, outbox, gateway>>

\* How an awaited call may settle: TRUE for success.
Outcomes == IF env.flaky THEN BOOLEAN ELSE {TRUE}
\* How transporter.sendMail may settle: it rejects a mail without recipient.
SendMail(to) == IF to = 0 THEN {FALSE} ELSE Outcomes

\* The save settles; on success the handler goes on to `await sendEmail(...)`.
SubmitSave(s, ok) ==
  /\ proc[s].op = "submit" /\ proc[s].pc = "save"
  /\ IF ok
     THEN /\ records' = Save(records, proc[s].idx, proc[s].doc, proc[s].mods)
          /\ proc' = [proc EXCEPT ![s].pc = "mail"]
     ELSE /\ records' = records
          /\ proc' = [proc EXCEPT ![s] = Respond(@, Failed(500))]
  /\ UNCHANGED <<env, now, nreq, files, outbox, gateway>>

\* transporter.sendMail settles; the handler answers.
Mail(s, kind, delivered) ==
  LET p == proc[s] IN
  /\ delivered \in SendMail(p.doc.contactEmail)
  /\ outbox' = IF delivered
               THEN outbox \cup {[req |-> p.id, to |-> p.doc.contactEmail,
                                  kind |-> kind, pkg |-> p.doc.packageName]}
               ELSE outbox
  /\ proc' = [proc EXCEPT ![s] = Respond(@,
       IF SendEmailThrows(env.program, delivered) THEN Failed(500)
       ELSE [status |-> 200, success |-> TRUE, link |-> Link(p.path)])]

SubmitMail(s, delivered) ==
  /\ proc[s].op = "submit" /\ proc[s].pc = "mail"
  /\ Mail(s, "apk", delivered)
  /\ UNCHANGED <<env, now, nreq, records, files, gateway>>

\* Faulty variant: the digest is compared with itself.
SignatureMismatchSelf(generated, signature) == generated # generated

\* `generated !== razorpay_signature`
SignatureMismatch(generated, signature) == generated # signature

\* POST /api/payment/verify up to `await AppModel.findOneAndUpdate(...)`.
Verify(pkg, order, payment, signature, t) ==
  /\ CanStart /\ Clock(t)
  /\ LET generated == Hmac(Secret, SignedMessage(order, payment))
         p == [Idle EXCEPT !.op = "verify", !.id = nreq + 1,
                  !.in = [packageName |-> pkg, order |-> order,
                          payment |-> payment, signature |-> signature]]
     IN IF SignatureMismatch(generated, signature)
        THEN /\ proc' = [proc EXCEPT ![FreeSlot] = Respond(p, Failed(400))]
             /\ files' = files
             /\ now' = now
        ELSE /\ files' = BuildFakeFile(files, env.program, pkg, "aab", t)
             /\ proc' = [proc EXCEPT ![FreeSlot] = [p EXCEPT !.pc = "update",
                           !.path = BuildPath(env.program, pkg, "aab")]]
             /\ now' = t
  /\ nreq' = nreq + 1
  /\ UNCHANGED <<env, records, outbox, gateway>>

\* findOneAndUpdate({packageName}, {paid: true, buildAAB: aabPath}, {new: true})
\* settles; `updated.contactEmail` throws on null.
VerifyUpdate(s, ok) ==
  /\ proc[s].op = "verify" /\ proc[s].pc = "update"
  /\ records' = IF ok THEN FindOneAndUpdate(records, proc[s].in.packageName,
                                               proc[s].path)
                ELSE records
  /\ LET updated == IF ok THEN FindOne(records', proc[s].in.packageName) ELSE 0
     IN IF updated = 0
        THEN proc' = [proc EXCEPT ![s] = Respond(@, Failed(500))]
        ELSE proc' = [proc EXCEPT ![s].pc = "mail", ![s].idx = updated,
                                  ![s].doc = records'[updated]]
  /\ UNCHANGED <<env, now, nreq, files, outbox, gateway>>

VerifyMail(s, delivered) ==
  /\ proc[s].op = "verify" /\ proc[s].pc = "mail"
  /\ Mail(s, "aab", delivered)
  /\ UNCHANGED <<env, now, nreq, records, files, gateway>>

\* GET /api/search
Search(q) ==
  /\ env.program = "server.js"
  /\ CanStart
  /\ LET query == Trim(q)
         idx == SearchOne(records, query)
         p == [Idle EXCEPT !.op = "search", !.id = nreq + 1,
                  !.in = [packageName |-> NoText, q |-> q]]
         resp == IF query = <<>>
                 THEN [status |-> 400, success |-> FALSE, data |-> Null,
                       apkLink |-> Null, aabLink |-> Null]
                 ELSE IF idx = 0
                 THEN [status |-> 200, success |-> FALSE, data |-> Null,
                       apkLink |-> Null, aabLink |-> Null]
                 ELSE [status |-> 200, success |-> TRUE, data |-> records[idx],
                       apkLink |-> Link(records[idx].buildFile),
                       aabLink |-> IF records[idx].buildAAB # Null
                                   THEN Link(records[idx].buildAAB) ELSE Null]
     IN proc' = [proc EXCEPT ![FreeSlot] = Respond(p, resp)]
  /\ nreq' = nreq + 1
  /\ UNCHANGED <<env, now, records, files, outbox, gateway>>

\* POST /api/payment/order
Order(ok, t) ==
  /\ CanStart /\ Clock(t)
  /\ gateway' = Append(gateway, <<"order_", t>>)
  /\ LET p == [Idle EXCEPT !.op = "order", !.id = nreq + 1,
                  !.in = [packageName |-> NoText]]
     IN proc' = [proc EXCEPT ![FreeSlot] = Respond(p,
                   IF ok THEN [status |-> 200, success |-> TRUE,
                               link |-> <<"order_", t>>]
                   ELSE Failed(500))]
  /\ nreq' = nreq + 1
  /\ now' = t
  /\ UNCHANGED <<env, records, files, outbox>>

Times == 0..MaxClock

\* What the handlers of either program do once the submit or verify has started.
Settle ==
  \/ \E s \in Slots, ok \in Outcomes : SubmitSave(s, ok)
  \/ \E s \in Slots, delivered \in BOOLEAN : SubmitMail(s, delivered)
  \/ \E s \in Slots, ok \in Outcomes : VerifyUpdate(s, ok)
  \/ \E s \in Slots, delivered \in BOOLEAN : VerifyMail(s, delivered)

\* The routes of server.js.
Next ==
  \/ \E pkg \in Packages, blank \in Blanks, t \in Times :
        Submit(MkData(pkg, nreq + 1, blank), t)
  \/ \E pkg \in Packages, o \in Orders, p \in Payments, sig \in Signatures, t \in Times :
        Verify(pkg, o, p, sig, t)
  \/ \E q \in Queries : Search(q)
  \/ \E ok \in Outcomes, t \in Times : Order(ok, t)
  \/ Settle

\* The routes of part_000.
NextP0 ==
  \/ \E pkg \in Packages, blank \in Blanks, t \in Times :
        P0Submit(MkData(pkg, nreq + 1, blank), t)
  \/ \E pkg \in Packages, o \in Orders, p \in Payments, sig \in Signatures, t \in Times :
        Verify(pkg, o, p, sig, t)
  \/ \E ok \in Outcomes, t \in Times : Order(ok, t)
  \/ Settle

Spec == Init /\ [][Next]_vars
SpecP0 == InitP0 /\ [][NextP0]_vars
SpecSearch == InitSearch /\ [][Next]_vars
SpecConc == InitConc /\ [][Next]_vars
SpecRace == InitRace /\ [][Next]_vars

(***************************************************************************)
(* Properties                                                              *)
(***************************************************************************)
RecIdx == 1..Len(records)
\* Frame s takes a step.
Acts(s) == proc'[s].pc # proc[s].pc \/ proc'[s].id # proc[s].id
ValidSignature(in) == in.signature = Hmac(Secret, SignedMessage(in.order, in.payment))
EmptyField(f, x) == IF f \in {"appName", "addons", "packageName"} THEN x = <<>> ELSE x = 0
OnePerPackage ==
  \A i, j \in RecIdx : records[i].packageName = records[j].packageName => i = j

Matches(query, rec) == RegexI(query, rec.appName) \/ RegexI(query, rec.packageName)
\* Frame s holds an answered search that had a query.
SearchDone(s) == proc[s].pc = "done" /\ proc[s].op = "search" /\ proc[s].resp.status = 200

\* C1: with requests handled one at a time, the collection holds at most one
\* record per packageName.
C1_OnePerPackage == OnePerPackage

\* C2: a verify whose signature differs from HMAC-SHA256(secret, order|payment)
\* changes neither the collection nor the build folder nor the outbox.
C2_TamperedNoEffect ==
  [][\A s \in Slots :
       (Acts(s) /\ proc'[s].op = "verify" /\ ~ValidSignature(proc'[s].in))
         => /\ records' = records /\ files' = files /\ outbox' = outbox
            /\ proc'[s].pc = "done" /\ proc'[s].resp.status = 400]_vars
C2_Witness ==
  \E s \in Slots :
    /\ proc[s].pc = "done" /\ proc[s].op = "verify"
    /\ ~ValidSignature(proc[s].in) /\ proc[s].resp.status = 400
    /\ FindOne(records, proc[s].in.packageName) # 0

\* C3: a record that is paid stays paid in every step, and a verify on a paid
\* record changes no field of it other than buildAAB.
C3_PaidMonotonic ==
  [][\A i \in RecIdx : records[i].paid =>
       /\ i <= Len(records')
       /\ records'[i].paid
       /\ (\E s \in Slots : Acts(s) /\ proc[s].op = "verify") =>
            \A f \in DOMAIN records[i] \ {"buildAAB"} : records'[i][f] = records[i][f]]_vars
C3_Witness ==
  \E s \in Slots, i \in RecIdx :
    /\ proc[s].pc = "done" /\ proc[s].op = "submit" /\ proc[s].resp.success
    /\ proc[s].id = nreq
    /\ records[i].paid /\ records[i].versionName = proc[s].id

\* C4: a resubmission replaces each stored field by the non-empty value it
\* carries and keeps the stored value of each field it leaves empty.
C4_MergeNonEmpty ==
  [][\A s \in Slots :
       (proc[s].op = "submit" /\ proc[s].pc = "save" /\ proc'[s].pc = "mail"
          /\ proc[s].idx # 0)
         => \A f \in MetaFields :
              records'[proc[s].idx][f] =
                IF EmptyField(f, proc[s].in[f]) THEN records[proc[s].idx][f]
                ELSE proc[s].in[f]]_vars

\* C5: a submit without packageName or without contactEmail is answered with a
\* failure at once, with no record and no file written.
C5_RejectedBeforeWrites ==
  [][\A s \in Slots :
       (Acts(s) /\ proc'[s].op = "submit" /\ proc'[s].id # proc[s].id
          /\ (proc'[s].in.packageName = NoText \/ proc'[s].in.contactEmail = 0))
         => /\ proc'[s].pc = "done" /\ ~proc'[s].resp.success
            /\ records' = records /\ files' = files]_vars

\* C6: a record whose buildAAB is set is paid.
C6_AabOnlyWhenPaid ==
  \A i \in RecIdx : records[i].buildAAB # Null => records[i].paid
C6_Witness ==
  \E i, j \in RecIdx :
    /\ records[i].buildAAB # Null /\ records[i].paid
    /\ ~records[j].paid /\ records[j].buildAAB = Null

\* C7: a correctly signed verify for a package without a record ends in a
\* failure response, creates no record and sends no mail.
C7_UnknownPackageRejected ==
  [][\A s \in Slots :
       (Acts(s) /\ proc[s].op = "verify" /\ proc[s].pc = "update"
          /\ FindOne(records, proc[s].in.packageName) = 0)
         => /\ proc'[s].pc = "done" /\ ~proc'[s].resp.success
            /\ records' = records /\ outbox' = outbox]_vars
C7_Witness ==
  \E s \in Slots :
    /\ proc[s].pc = "done" /\ proc[s].op = "verify" /\ ValidSignature(proc[s].in)
    /\ ~proc[s].resp.success
    /\ records # <<>>
    /\ FindOne(records, proc[s].in.packageName) = 0
    /\ \A m \in outbox : m.req # proc[s].id

\* C8: submit and verify answer with success whether or not the mail was
\* delivered.
C8_MailFailureStillSuccess ==
  [][\A s \in Slots :
       (proc[s].pc = "mail" /\ proc'[s].pc = "done")
         => proc'[s].resp.success]_vars

\* C9 (as stated): after a search, every record the query matches was returned:
\* with both links if it is paid, with aabLink null if it was never paid.
C9_EveryMatchReturned ==
  \A s \in Slots : SearchDone(s) =>
    \A i \in RecIdx : Matches(Trim(proc[s].in.q), records[i]) =>
      /\ proc[s].resp.success
      /\ records[i].paid =>
           /\ proc[s].resp.data = records[i]
           /\ proc[s].resp.apkLink # Null /\ proc[s].resp.aabLink # Null
      /\ ~records[i].paid => proc[s].resp.aabLink = Null

\* C9 (amended): a search returns the first stored record its query matches,
\* with apkLink set, and with aabLink set exactly when that record has buildAAB;
\* for a paid record both links are set.
C9_FirstMatchReturned ==
  \A s \in Slots : SearchDone(s) =>
    \A i \in RecIdx :
      (/\ Matches(Trim(proc[s].in.q), records[i])
       /\ \A j \in 1..(i - 1) : ~Matches(Trim(proc[s].in.q), records[j]))
        => /\ proc[s].resp.success
           /\ proc[s].resp.data = records[i]
           /\ proc[s].resp.apkLink = Link(records[i].buildFile)
           /\ proc[s].resp.aabLink # Null <=> records[i].buildAAB # Null
           /\ records[i].paid => proc[s].resp.aabLink = Link(records[i].buildAAB)
           /\ ~records[i].paid => proc[s].resp.aabLink = Null
C9_Witness ==
  \E s \in Slots, i \in RecIdx :
    /\ SearchDone(s) /\ proc[s].resp.success
    /\ proc[s].resp.data = records[i] /\ records[i].paid
    /\ proc[s].resp.aabLink # Null /\ proc[s].resp.apkLink # Null

\* C10: two submits of server.js for one new packageName whose store operations
\* interleave leave one record for it.
C10_OnePerPackageInterleaved == env.cap > 1 => OnePerPackage

\* C11: the write of a resubmission changes paid and buildAAB of no record,
\* also when a verify for the package has completed since the resubmission
\* read the record.
C11_ResubmitKeepsPayment ==
  [][\A s \in Slots :
       (proc[s].op = "submit" /\ proc[s].pc = "save" /\ proc'[s].pc = "mail"
          /\ proc[s].idx # 0)
         => /\ Len(records') = Len(records)
            /\ \A i \in RecIdx : /\ records'[i].paid = records[i].paid
                                 /\ records'[i].buildAAB = records[i].buildAAB]_vars
\* The resubmission has written, and the verify that arrived after its read
\* had updated the record before that write.
C11_Witness ==
  \E s, u \in Slots :
    /\ proc[s].op = "submit" /\ proc[s].pc = "mail" /\ proc[s].idx # 0
    /\ ~proc[s].doc.paid
    /\ records[proc[s].idx].versionName = proc[s].id
    /\ proc[u].op = "verify" /\ proc[u].pc = "mail" /\ proc[u].id > proc[s].id
    /\ proc[u].idx = proc[s].idx
    /\ proc[u].doc.versionName # proc[s].id
    /\ records[proc[s].idx].paid
    /\ records[proc[s].idx].buildAAB = proc[u].path

\* C12: when the save of a submit fails, the handler answers with a failure,
\* the collection is as it was, and no mail of that request has been or will
\* be sent (the handler has ended).
C12_FailedSaveLeavesRecord ==
  [][\A s \in Slots :
       (proc[s].op = "submit" /\ proc[s].pc = "save" /\ proc'[s].pc = "done")
         => /\ ~proc'[s].resp.success /\ proc'[s].resp.status >= 400
            /\ records' = records
            /\ outbox' = outbox
            /\ \A m \in outbox' : m.req # proc[s].id]_vars
\* A resubmission that carried metadata has failed and the stored record does
\* not have it.
C12_Witness ==
  \E s \in Slots :
    /\ proc[s].op = "submit" /\ proc[s].pc = "done" /\ ~proc[s].resp.success
    /\ proc[s].in.versionName = proc[s].id
    /\ FindOne(records, proc[s].in.packageName) # 0
    /\ records[FindOne(records, proc[s].in.packageName)].versionName # proc[s].id
    /\ \A m \in outbox : m.req # proc[s].id

Quiescent == \A s \in Slots : ~Busy(s)
\* The stub artifacts of the given type in the builds folder.
Artifacts(type) == {f \in files : f.path[3] = type}

\* C13: once every handler has answered, a stub APK stored for a package was
\* produced by a successful submit for it, so the package has a record with
\* that buildFile; a submit that failed has left no artifact behind.
C13_ApkOfSuccessfulSubmit ==
  Quiescent =>
    \A f \in Artifacts("apk") :
      \E i \in RecIdx : records[i].packageName = f.path[2]
                          /\ records[i].buildFile = f.path

ClientError == 400..499

\* C14: a verify that fails on its signature, or (no call of the store
\* failing) because its package has no record, is answered with a 4xx status.
C14_VerifyFailureKinds ==
  [][\A s \in Slots :
       (Acts(s) /\ proc'[s].op = "verify" /\ proc'[s].pc = "done"
          /\ ~proc'[s].resp.success)
         => /\ ~ValidSignature(proc'[s].in) => proc'[s].resp.status \in ClientError
            /\ (/\ ~env.flaky
                /\ proc[s].pc = "update"
                /\ FindOne(records, proc[s].in.packageName) = 0)
                 => proc'[s].resp.status \in ClientError]_vars

\* Frame s has issued its notification and the transport has not settled it.
MailPending(s) == proc[s].pc = "mail"
Answered(s) == proc[s].resp # <<>>

\* C15: the response does not wait for the notification: a handler whose
\* notification is pending has returned its response.
C15_ResponseNotAfterMail ==
  \A s \in Slots : MailPending(s) => Answered(s)
\* What the handlers do instead: no response while the notification is pending.
ResponseAwaitsMail ==
  \A s \in Slots : MailPending(s) => ~Answered(s)

\* C16: no step changes the createdAt of a record, and a step that changes a
\* record leaves its updatedAt at the current time.
C16_Timestamps ==
  [][\A i \in RecIdx :
       /\ i <= Len(records')
       /\ records'[i].createdAt = records[i].createdAt
       /\ records'[i] # records[i] => records'[i].updatedAt = now']_vars

\* C17: the receipts passed to the gateway are pairwise different.
C17_UniqueReceipts ==
  \A i, j \in 1..Len(gateway) : gateway[i] = gateway[j] => i = j
\* The other half of the claim, which the handler meets: an order request
\* changes neither the collection nor the builds folder.
OrderChangesNoState ==
  [][\A s \in Slots : (Acts(s) /\ proc'[s].op = "order")
        => records' = records /\ files' = files]_vars

\* C18: once every handler has answered, a stub AAB stored for a package
\* belongs to a paid record of that package whose buildAAB names it.
C18_AabArtifactOfPaidRecord ==
  Quiescent =>
    \A f \in Artifacts("aab") :
      \E i \in RecIdx : /\ records[i].packageName = f.path[2]
                          /\ records[i].paid
                          /\ records[i].buildAAB = f.path

\* C19: no step changes the contactEmail of a record, and every mail a step
\* delivers goes to the contactEmail stored in a record of its package.
C19_ContactEmailFixed ==
  [][/\ \A i \in RecIdx : /\ i <= Len(records')
                            /\ records'[i].contactEmail = records[i].contactEmail
     /\ \A m \in outbox' \ outbox :
          \E i \in RecIdx : /\ records[i].packageName = m.pkg
                              /\ records[i].contactEmail = m.to]_vars
\* A resubmission that carried another address has been answered, and its
\* mail went to the address stored at creation.
C19_Witness ==
  \E s \in Slots, m \in outbox :
    /\ proc[s].op = "submit" /\ proc[s].pc = "done" /\ proc[s].resp.success
    /\ proc[s].in.contactEmail = proc[s].id
    /\ m.req = proc[s].id /\ m.to # proc[s].id /\ m.to # 0
    /\ FindOne(records, m.pkg) # 0
    /\ records[FindOne(records, m.pkg)].contactEmail = m.to
    /\ records[FindOne(records, m.pkg)].versionName = proc[s].id
====
